---- MODULE Spec2Model ----
(***************************************************************************)
(* A model of copile's orchestrator (src/copile/copilation.py): the cache  *)
(* store, the safety gate, the clarity check and the generation loop.      *)
(*                                                                         *)
(* Text is modelled line by line.  A line is a record [k, a]: k is the     *)
(* kind of the line and a its one parameter.                               *)
(*   import   a = module     "import a" at column 0                        *)
(*   iimport  a = module     "    import a" inside a function body         *)
(*   from     a = module     "from a import x" at column 0                 *)
(*   def      a = name       "def a(...):"                                 *)
(*   ret      a = tag        "    return <a>"  (a tells bodies apart)      *)
(*   call     a = function   "    a(x)"  a body statement calling a        *)
(*   docfrom                 a docstring line of a body whose text starts  *)
(*                           with "from " ("    from the list.")           *)
(*   fromtext                that same text at column 0: not a statement   *)
(*   fence    a = language   a line "```" + a                              *)
(*   prose                   a line of plain English                       *)
(*   blank                   an empty line                                 *)
(***************************************************************************)
EXTENDS Integers, Sequences, FiniteSets, TLC

L(k, a) == [k |-> k, a |-> a]

Blank == L("blank", "")

\* Kinds of the lines that are indented under a def header.
Indented == {"iimport", "ret", "call", "docfrom"}

\* Kinds that python cannot parse wherever they stand.
NotPython == {"fence", "prose", "fromtext"}

(***************************************************************************)
(* The environment: the two denylist files, the installed modules.         *)
(***************************************************************************)
ModuleBlacklist == {"os"}

FunctionBlacklist == {"eval"}

InstalledModules == {"math", "os", "os.path"}

\* The expected callable name, parsed from the decorated stub.
callable_name == "foo"

NONE == "NONE"

(***************************************************************************)
(* Python's own operations on a source text.                               *)
(***************************************************************************)

\* ast.parse(s) succeeds.
Parses(s) ==
    /\ \A i \in 1..Len(s) : s[i].k \notin NotPython
    /\ \A i \in 1..Len(s) :
          s[i].k = "def" => (i < Len(s) /\ s[i + 1].k \in Indented)
    /\ \A i \in 1..Len(s) :
          s[i].k \in Indented => (i > 1 /\ s[i - 1].k \in Indented \cup {"def"})

\* The last line of the block whose header is line i of s.
RECURSIVE BlockEnd(_, _)
BlockEnd(s, i) ==
    IF i < Len(s) /\ s[i + 1].k \in Indented THEN BlockEnd(s, i + 1) ELSE i

\* The indices of the def headers of name n in s.
DefLines(s, n) == {i \in 1..Len(s) : s[i] = L("def", n)}

Max(S) == CHOOSE x \in S : \A y \in S : y <= x

Min(S) == CHOOSE x \in S : \A y \in S : x <= y

NoObj == [name |-> "", body |-> <<>>]

\* The object a name is bound to once s has run: its last definition.
Binding(s, n) ==
    IF DefLines(s, n) = {} THEN NoObj
    ELSE LET i == Max(DefLines(s, n))
         IN  [name |-> n, body |-> SubSeq(s, i + 1, BlockEnd(s, i))]

\* Running s raises ModuleNotFoundError: a module-level import of a module
\* that is not installed.  Imports inside a body run only when it is called.
MissingModules(s) ==
    {s[i].a : i \in {j \in 1..Len(s) : s[j].k \in {"import", "from"}}}
        \ InstalledModules

\* _parse_callable_name: the first function or class of the tree, or None ("").
parse_callable_name(s) ==
    LET D == {i \in 1..Len(s) : s[i].k = "def"}
    IN  IF D = {} THEN "" ELSE s[Min(D)].a

(***************************************************************************)
(* The oracle wrapper and the cleaning of its answer.                      *)
(***************************************************************************)
model_max_tokens == 128000

\* int(model_max_tokens[model] * 0.9 * 4)
max_characters == (model_max_tokens * 9 * 4) \div 10

\* _get_completion on a text of n characters, the service answering `answer`:
\* above the budget the service is not called and `completion` is a str, so
\* `completion.choices` raises AttributeError.
get_completion(n, answer) ==
    IF n > max_characters
    THEN [called |-> FALSE, raise |-> "AttributeError", content |-> <<>>]
    ELSE [called |-> TRUE, raise |-> "", content |-> answer]

\* s.startswith(prefix), s and prefix being sequences of tokens.
StartsWith(s, tok) == Len(s) > 0 /\ s[1] = tok

\* str.strip() on a text: its leading and trailing empty lines go.
RECURSIVE strip(_)
strip(s) ==
    IF s = <<>> THEN s
    ELSE IF Head(s) = Blank THEN strip(Tail(s))
    ELSE IF s[Len(s)] = Blank THEN strip(SubSeq(s, 1, Len(s) - 1))
    ELSE s

\* _strip_special with the prefixes and suffixes of _clean_response.  The
\* prefixes "```python" and "```json" empty the first line when it is that
\* fence; a bare "```" first line matches no prefix and stays.  The suffix
\* "```" empties a last line that is the bare fence.  (No answer of the model
\* starts or ends with the quote character.)
strip_special(s) ==
    LET p == IF Len(s) > 0 /\ s[1] \in {L("fence", "python"), L("fence", "json")}
             THEN <<Blank>> \o Tail(s) ELSE s
    IN  IF Len(p) > 0 /\ p[Len(p)] = L("fence", "")
        THEN SubSeq(p, 1, Len(p) - 1) \o <<Blank>> ELSE p

clean_response(response) == strip(strip_special(response))

(***************************************************************************)
(* The static denylist scanner.                                            *)
(***************************************************************************)

\* The text "import a" holds the text "import m": m begins the name a.
NameBegins(m, a) == a = m \/ (m = "os" /\ a = "os.path")

\* A scanner that looks at the imports at column 0 only.
check_for_blacklisted_modules_used_top_level(source_code, blacklist) ==
    {m \in blacklist :
        \E i \in 1..Len(source_code) :
            source_code[i].k = "import" /\ NameBegins(m, source_code[i].a)}

\* f"import {m}" in source or f"from {m} import" in source: a substring test,
\* met by an import line at any indentation whose module name begins with m,
\* and by a from-import of m itself.
check_for_blacklisted_modules_used(source_code, blacklist) ==
    {m \in blacklist :
        \E i \in 1..Len(source_code) :
            \/ /\ source_code[i].k \in {"import", "iimport"}
               /\ NameBegins(m, source_code[i].a)
            \/ source_code[i] = L("from", m)}

\* A scan that does not descend into the bodies of the definitions: it sees
\* the calls at column 0 only, and a call line of the model is indented.
check_for_blacklisted_functions_used_shallow(source, blacklisted_functions) ==
    {f \in blacklisted_functions :
        \E i \in 1..Len(source) :
            source[i] = L("call", f) /\ source[i].k \notin Indented}

\* The calls of a bare denylisted name anywhere in the tree.  ast.parse raises
\* SyntaxError first on a source that does not parse: see review_safety.
check_for_blacklisted_functions_used(source, blacklisted_functions) ==
    {f \in blacklisted_functions :
        \E i \in 1..Len(source) : source[i] = L("call", f)}

\* issues.split(', '): the answer is the sequence of the pieces between the
\* separators.
split(answer) == {answer[i] : i \in 1..Len(answer)}

(***************************************************************************)
(* The safety gate and the clarity check.  Each returns what it raises     *)
(* ("" when it returns normally) and whether it called the oracle.  The    *)
(* candidates of the model are all far shorter than max_characters: their  *)
(* length is taken as their number of lines.                               *)
(***************************************************************************)
\* A gate that skips the function scan.
review_safety_no_function_scan(source, module_whitelist, function_whitelist, unsafe_overrides, answer) ==
    LET mods == check_for_blacklisted_modules_used(source,
                    ModuleBlacklist \ module_whitelist)
        gc == get_completion(Len(source), answer)
        issues == (split(gc.content) \ unsafe_overrides) \ {NONE}
    IN  IF mods # {}
        THEN [raise |-> "BlackListedModuleImportError", called |-> FALSE, found |-> mods]
        ELSE IF ~Parses(source)
        THEN [raise |-> "SyntaxError", called |-> FALSE, found |-> {}]
        ELSE IF gc.raise # ""
        THEN [raise |-> gc.raise, called |-> FALSE, found |-> {}]
        ELSE IF issues # {}
        THEN [raise |-> "CopiledSourceDeemedUnsafeError", called |-> TRUE, found |-> issues]
        ELSE [raise |-> "", called |-> TRUE, found |-> {}]

\* A gate that asks the classifier before it scans.
review_safety_classify_first(source, module_whitelist, function_whitelist, unsafe_overrides, answer) ==
    LET mods == check_for_blacklisted_modules_used(source,
                    ModuleBlacklist \ module_whitelist)
        funs == check_for_blacklisted_functions_used(source,
                    FunctionBlacklist \ function_whitelist)
        gc == get_completion(Len(source), answer)
        issues == (split(gc.content) \ unsafe_overrides) \ {NONE}
    IN  IF gc.raise # ""
        THEN [raise |-> gc.raise, called |-> FALSE, found |-> {}]
        ELSE IF mods # {}
        THEN [raise |-> "BlackListedModuleImportError", called |-> TRUE, found |-> mods]
        ELSE IF ~Parses(source)
        THEN [raise |-> "SyntaxError", called |-> TRUE, found |-> {}]
        ELSE IF funs # {}
        THEN [raise |-> "BlackListedFunctionUseError", called |-> TRUE, found |-> funs]
        ELSE IF issues # {}
        THEN [raise |-> "CopiledSourceDeemedUnsafeError", called |-> TRUE, found |-> issues]
        ELSE [raise |-> "", called |-> TRUE, found |-> {}]

\* A gate that scans the calls before the imports.
review_safety_functions_first(source, module_whitelist, function_whitelist, unsafe_overrides, answer) ==
    LET mods == check_for_blacklisted_modules_used(source,
                    ModuleBlacklist \ module_whitelist)
        funs == check_for_blacklisted_functions_used(source,
                    FunctionBlacklist \ function_whitelist)
        gc == get_completion(Len(source), answer)
        issues == (split(gc.content) \ unsafe_overrides) \ {NONE}
    IN  IF ~Parses(source)
        THEN [raise |-> "SyntaxError", called |-> FALSE, found |-> {}]
        ELSE IF funs # {}
        THEN [raise |-> "BlackListedFunctionUseError", called |-> FALSE, found |-> funs]
        ELSE IF mods # {}
        THEN [raise |-> "BlackListedModuleImportError", called |-> FALSE, found |-> mods]
        ELSE IF gc.raise # ""
        THEN [raise |-> gc.raise, called |-> FALSE, found |-> {}]
        ELSE IF issues # {}
        THEN [raise |-> "CopiledSourceDeemedUnsafeError", called |-> TRUE, found |-> issues]
        ELSE [raise |-> "", called |-> TRUE, found |-> {}]

\* A gate that takes the NONE sentinel for a label.
review_safety_keeps_none(source, module_whitelist, function_whitelist, unsafe_overrides, answer) ==
    LET mods == check_for_blacklisted_modules_used(source,
                    ModuleBlacklist \ module_whitelist)
        funs == check_for_blacklisted_functions_used(source,
                    FunctionBlacklist \ function_whitelist)
        gc == get_completion(Len(source), answer)
        issues == split(gc.content) \ unsafe_overrides
    IN  IF mods # {}
        THEN [raise |-> "BlackListedModuleImportError", called |-> FALSE, found |-> mods]
        ELSE IF ~Parses(source)
        THEN [raise |-> "SyntaxError", called |-> FALSE, found |-> {}]
        ELSE IF funs # {}
        THEN [raise |-> "BlackListedFunctionUseError", called |-> FALSE, found |-> funs]
        ELSE IF gc.raise # ""
        THEN [raise |-> gc.raise, called |-> FALSE, found |-> {}]
        ELSE IF issues # {}
        THEN [raise |-> "CopiledSourceDeemedUnsafeError", called |-> TRUE, found |-> issues]
        ELSE [raise |-> "", called |-> TRUE, found |-> {}]

review_safety(source, module_whitelist, function_whitelist, unsafe_overrides, answer) ==
    LET mods == check_for_blacklisted_modules_used(source,
                    ModuleBlacklist \ module_whitelist)
        funs == check_for_blacklisted_functions_used(source,
                    FunctionBlacklist \ function_whitelist)
        gc == get_completion(Len(source), answer)
        issues == (split(gc.content) \ unsafe_overrides) \ {NONE}
    IN  IF mods # {}
        THEN [raise |-> "BlackListedModuleImportError", called |-> FALSE, found |-> mods]
        ELSE IF ~Parses(source)
        THEN [raise |-> "SyntaxError", called |-> FALSE, found |-> {}]
        ELSE IF funs # {}
        THEN [raise |-> "BlackListedFunctionUseError", called |-> FALSE, found |-> funs]
        ELSE IF gc.raise # ""
        THEN [raise |-> gc.raise, called |-> FALSE, found |-> {}]
        ELSE IF issues # {}
        THEN [raise |-> "CopiledSourceDeemedUnsafeError", called |-> TRUE, found |-> issues]
        ELSE [raise |-> "", called |-> TRUE, found |-> {}]

\* A clarity check that compares the whole answer with "UNCLEAR".
review_specification_exact(n, answer) ==
    LET gc == get_completion(n, answer)
    IN  IF gc.raise # "" THEN [raise |-> gc.raise, called |-> FALSE]
        ELSE IF gc.content = <<"UNCLEAR">>
        THEN [raise |-> "SpecificationUnclearError", called |-> TRUE]
        ELSE [raise |-> "", called |-> TRUE]

review_specification(n, answer) ==
    LET gc == get_completion(n, answer)
    IN  IF gc.raise # "" THEN [raise |-> gc.raise, called |-> FALSE]
        ELSE IF StartsWith(gc.content, "UNCLEAR")
        THEN [raise |-> "SpecificationUnclearError", called |-> TRUE]
        ELSE [raise |-> "", called |-> TRUE]

(***************************************************************************)
(* The cache store.  A cache file is absent, or a sequence of lines.       *)
(***************************************************************************)

\* _get_existing_copilation: "none" (no file, or the name is not defined),
\* "hit", or "raise" when running the file raises anything else.
get_existing_copilation(exists, f, name) ==
    IF ~exists THEN [st |-> "none", err |-> "", obj |-> NoObj]
    ELSE IF ~Parses(f) THEN [st |-> "raise", err |-> "SyntaxError", obj |-> NoObj]
    ELSE IF MissingModules(f) # {}
    THEN [st |-> "raise", err |-> "ModuleNotFoundError", obj |-> NoObj]
    ELSE IF DefLines(f, name) = {} THEN [st |-> "none", err |-> "", obj |-> NoObj]
    ELSE [st |-> "hit", err |-> "", obj |-> Binding(f, name)]

\* line.strip().startswith('import ') or line.strip().startswith('from ')
IsImportText(l) == l.k \in {"import", "iimport", "from", "docfrom", "fromtext"}

IsOtherText(l) == ~IsImportText(l)

\* line.strip(): the line at column 0.
Stripped(l) ==
    IF l.k = "iimport" THEN L("import", l.a)
    ELSE IF l.k = "docfrom" THEN L("fromtext", l.a)
    ELSE l

move_imports_to_top(f) ==
    LET imports == SelectSeq(f, IsImportText)
        others == SelectSeq(f, IsOtherText)
    IN  [i \in 1..Len(imports) |-> Stripped(imports[i])] \o others

\* _rewrite_copiled_source: lines[start - 1 : start + len(split)] are replaced,
\* len(split) being the definition's line count plus one (getsource ends with a
\* newline), by the new source and two empty lines.
rewrite_copiled_source(f, name, new_source_code) ==
    LET function_start_line == Max(DefLines(f, name))
        n == BlockEnd(f, function_start_line) - function_start_line + 1
        function_end_line == function_start_line + n + 1
    IN  SubSeq(f, 1, function_start_line - 1)
        \o new_source_code \o <<Blank, Blank>>
        \o SubSeq(f, function_end_line + 1, Len(f))

\* isort: the module-level imports, sorted, each once, the plain imports
\* before the from-imports.
ModuleOrder == <<"math", "nomod", "os", "os.path">>

IsNotImportLine(l) == l.k \notin {"import", "from"}

isort(f) ==
    LET used(k) == {f[i].a : i \in {j \in 1..Len(f) : f[j].k = k}}
        IsImported(m) == m \in used("import")
        IsImportedFrom(m) == m \in used("from")
        ms == SelectSeq(ModuleOrder, IsImported)
        fs == SelectSeq(ModuleOrder, IsImportedFrom)
    IN  [i \in 1..Len(ms) |-> L("import", ms[i])]
        \o [i \in 1..Len(fs) |-> L("from", fs[i])]
        \o SelectSeq(f, IsNotImportLine)

IsNotBlank(l) == l # Blank

RECURSIVE Spaced(_, _)
Spaced(s, i) ==
    IF i > Len(s) THEN <<>>
    ELSE (IF i > 1 /\ (s[i].k = "def"
                       \/ (s[i].k \in {"import", "from"} /\ s[i - 1].k \in Indented))
          THEN <<Blank, Blank, s[i]>> ELSE <<s[i]>>) \o Spaced(s, i + 1)

\* black: a file that does not parse is left as it is; one that parses gets
\* two empty lines around each top-level definition and none elsewhere.
black(f) == IF Parses(f) THEN Spaced(SelectSeq(f, IsNotBlank), 1) ELSE f

\* _write_copiled_source: what it raises and the file it leaves.  tools are
\* the formatters found on the PATH: subprocess.run raises FileNotFoundError
\* on one that is not there, after the file has been written and hoisted.
write_copiled_source(exists, f, name, source_code, tools) ==
    LET ex == get_existing_copilation(exists, f, name)
        written == IF ex.st = "hit"
                   THEN rewrite_copiled_source(f, name, source_code)
                   ELSE f \o <<Blank, Blank>> \o source_code
        hoisted == move_imports_to_top(written)
    IN  IF ex.st = "raise"
        THEN [raise |-> ex.err, exists |-> exists, file |-> f]
        ELSE IF "isort" \notin tools
        THEN [raise |-> "FileNotFoundError", exists |-> TRUE, file |-> hoisted]
        ELSE IF "black" \notin tools
        THEN [raise |-> "FileNotFoundError", exists |-> TRUE, file |-> isort(hoisted)]
        ELSE [raise |-> "", exists |-> TRUE, file |-> black(isort(hoisted))]

\* _source_to_object: exec(source), then globals_dict[source_name].
source_to_object(source) ==
    LET source_name == parse_callable_name(source)
    IN  IF ~Parses(source) THEN [raise |-> "SyntaxError", obj |-> NoObj]
        ELSE IF MissingModules(source) # {}
        THEN [raise |-> "ModuleNotFoundError", obj |-> NoObj]
        ELSE IF source_name = "" THEN [raise |-> "KeyError", obj |-> NoObj]
        ELSE [raise |-> "", obj |-> Binding(source, source_name)]

(***************************************************************************)
(* The inputs: what the callers pass and what the oracle answers.          *)
(***************************************************************************)

\* The orchestrator calls of one behaviour.
MaxCalls == 2

\* The formatters _write_copiled_source runs, both on the PATH of the process.
Formatters == {"isort", "black"}

\* The PATH of a process that lacks black, or both.
BareEnvironments == {{"isort"}, {}}

\* The length of a specification that is within the budget.
ShortSpec == 200

SpecChars == {ShortSpec, max_characters + 1}

ModuleWhitelists == {{}, {"os"}}

FunctionWhitelists == {{}, {"eval"}}

UnsafeOverrides == {{}, {"FILE_WRITE"}}

ClarityAnswers == {<<"CLEAR">>, <<"UNCLEAR", ": what is me">>, <<"Mostly", "UNCLEAR">>}

ClassifierAnswers ==
    {<<NONE>>, <<"FILE_WRITE">>, <<"FILE_WRITE", NONE>>, <<"FILE_ACCESS", "FILE_WRITE">>,
     <<"FILE_WRITE,NONE">>}

Fenced(src) == <<L("fence", "python")>> \o src \o <<L("fence", "")>>

SrcV1 == <<L("def", "foo"), L("ret", "v1")>>

SrcV2 == <<L("import", "math"), Blank, L("def", "foo"), L("ret", "v2")>>

SrcOs == <<L("import", "os"), L("def", "foo"), L("ret", "v3")>>

SrcEval == <<L("def", "foo"), L("call", "eval"), L("ret", "v4")>>

SrcBar == <<L("def", "bar"), L("ret", "v1")>>

SrcNoMod == <<L("import", "nomod"), L("def", "foo"), L("ret", "v1")>>

SrcDoc == <<L("def", "foo"), L("docfrom", ""), L("ret", "v5")>>

SrcInner == <<L("def", "foo"), L("iimport", "nomod"), L("ret", "v6")>>

SrcNoDef == <<L("import", "math")>>

SrcInnerMath == <<L("def", "foo"), L("iimport", "math"), L("ret", "v7")>>

SrcFromOs == <<L("from", "os"), L("def", "foo"), L("ret", "v8")>>

SrcOsPathEval ==
    <<L("import", "os.path"), L("def", "foo"), L("call", "eval"), L("ret", "v9")>>

SrcFooHelper ==
    <<L("def", "foo"), L("ret", "v1"), L("def", "helper"), L("ret", "v2")>>

\* The answers of the oracle to "generate an implementation".
GenerateAnswers ==
    { Fenced(SrcV1), SrcV2, SrcOs, SrcEval, SrcBar, SrcNoMod, SrcDoc, SrcInner,
      SrcNoDef, SrcInnerMath, SrcFromOs, SrcOsPathEval,
      <<L("prose", "")>> \o SrcV1,
      <<L("fence", "")>> \o SrcV1 \o <<L("fence", "")>>,
      <<L("import", "os"), L("prose", "")>> }

(***************************************************************************)
(* The state.                                                              *)
(***************************************************************************)
VARIABLES
    installed,      \* the formatters on the PATH
    fileExists,     \* the cache file of callable_name exists
    file,           \* its lines
    pc,             \* where the running call stands: idle (no call runs),
                    \* clarity, generate, review, try
    calls,          \* the calls started so far
    args,           \* the arguments of the running (or last) call
    tries,          \* _copiler's tries
    copiled_source, \* _copiler's copiled_source, cleaned
    clarity,        \* the oracle's last answer to the clarity check
    issues,         \* the oracle's last answer to the safety classification
    passed,         \* the candidates _review_safety returned normally on,
                    \* in this call
    oracle,         \* the oracle calls of this call, by kind
    result,         \* how the last call ended
    carried,        \* what the error of the gate carries: the modules, the
                    \* functions or the labels it found
    before,         \* the cache file when the running call started
    prev            \* how the call before the running one went

vars == <<installed, fileExists, file, pc, calls, args, tries, copiled_source, clarity,
          issues, passed, oracle, result, carried, before, prev>>

\* A loop of one more turn.
max_tries_one_more == 2 + 1

max_tries == 2

NoResult == [kind |-> "none", err |-> "", obj |-> NoObj, src |-> <<>>]

Raised(e) == [kind |-> "raise", err |-> e, obj |-> NoObj, src |-> <<>>]

OracleCalls == oracle.clarity + oracle.generate + oracle.classify

Init ==
    /\ installed = Formatters
    /\ fileExists = FALSE
    /\ file = <<>>
    /\ pc = "idle"
    /\ calls = 0
    /\ args = [force_copilation |-> FALSE, module_whitelist |-> {},
               function_whitelist |-> {}, unsafe_overrides |-> {},
               spec_chars |-> ShortSpec]
    /\ tries = 0
    /\ copiled_source = <<>>
    /\ clarity = <<>>
    /\ issues = <<>>
    /\ passed = {}
    /\ oracle = [clarity |-> 0, generate |-> 0, classify |-> 0]
    /\ result = NoResult
    /\ carried = {}
    /\ before = [exists |-> FALSE, file |-> <<>>]
    /\ prev = [kind |-> "none", obj |-> NoObj, src |-> <<>>, oracle |-> 0,
               force |-> FALSE, fresh |-> FALSE]

\* A cache check that always regenerates.
needs_copilation_always(force, existing) == TRUE

\* A cache check that serves every hit, forced or not.
needs_copilation_ignores_force(force, existing) == existing.st = "none"

\* if force_copilation or not existing_copilation
needs_copilation(force, existing) == force \/ existing.st = "none"

\* A handler whose bare except comes first.
on_exception_swallow(e) == IF e = "" THEN "return" ELSE "retry"

\* The except clauses of the loop: what follows the try block raising e
\* ("" when it raises nothing).
on_exception(e) ==
    IF e = "" THEN "return"
    ELSE IF e = "ModuleNotFoundError" THEN "raise"
    ELSE "retry"

\* _copiler up to the cache check: a hit that is not forced is returned.
Call(force, mw, fw, uo, n) ==
    /\ pc = "idle"
    /\ calls < MaxCalls
    /\ LET existing == get_existing_copilation(fileExists, file, callable_name)
       IN  /\ calls' = calls + 1
           /\ args' = [force_copilation |-> force, module_whitelist |-> mw,
                       function_whitelist |-> fw, unsafe_overrides |-> uo,
                       spec_chars |-> n]
           /\ tries' = 0
           /\ copiled_source' = <<>>
           /\ clarity' = <<>>
           /\ issues' = <<>>
           /\ passed' = {}
           /\ oracle' = [clarity |-> 0, generate |-> 0, classify |-> 0]
           /\ carried' = {}
           /\ before' = [exists |-> fileExists, file |-> file]
           /\ prev' = [kind |-> result.kind, obj |-> result.obj, src |-> result.src,
                       oracle |-> OracleCalls,
                       force |-> args.force_copilation, fresh |-> ~before.exists]
           /\ IF existing.st = "raise"
              THEN pc' = "idle" /\ result' = Raised(existing.err)
              ELSE IF needs_copilation(force, existing)
              THEN pc' = "clarity" /\ result' = NoResult
              ELSE pc' = "idle"
                   /\ result' = [kind |-> "cached", err |-> "",
                                 obj |-> existing.obj, src |-> <<>>]
           /\ UNCHANGED <<installed, fileExists, file>>

\* _review_specification, the oracle answering `answer`.
ReviewSpecification(answer) ==
    /\ pc = "clarity"
    /\ LET r == review_specification(args.spec_chars, answer)
       IN  /\ clarity' = IF r.called THEN answer ELSE <<>>
           /\ oracle' = [oracle EXCEPT !.clarity = @ + (IF r.called THEN 1 ELSE 0)]
           /\ IF r.raise # ""
              THEN pc' = "idle" /\ result' = Raised(r.raise)
              ELSE pc' = "generate" /\ result' = result
    /\ UNCHANGED <<installed, fileExists, file, calls, args, tries, copiled_source, issues,
                   passed, carried, before, prev>>

\* One turn of the loop up to the cleaned candidate.
Generate(answer) ==
    /\ pc = "generate"
    /\ tries < max_tries
    /\ LET gc == get_completion(args.spec_chars, answer)
       IN  /\ oracle' = [oracle EXCEPT !.generate = @ + (IF gc.called THEN 1 ELSE 0)]
           /\ IF gc.raise # ""
              THEN pc' = "idle" /\ result' = Raised(gc.raise)
                   /\ UNCHANGED copiled_source
              ELSE pc' = "review" /\ result' = result
                   /\ copiled_source' = clean_response(gc.content)
    /\ UNCHANGED <<installed, fileExists, file, calls, args, tries, clarity, issues, passed,
                   carried, before, prev>>

\* A loop whose try block holds the gate too: a candidate that does not parse
\* is one more failed try.
ReviewSafety_in_try(answer) ==
    /\ pc = "review"
    /\ LET r == review_safety(copiled_source, args.module_whitelist,
                              args.function_whitelist, args.unsafe_overrides, answer)
       IN  /\ issues' = IF r.called THEN answer ELSE <<>>
           /\ oracle' = [oracle EXCEPT !.classify = @ + (IF r.called THEN 1 ELSE 0)]
           /\ carried' = r.found
           /\ IF r.raise = "SyntaxError"
              THEN /\ tries' = tries + 1
                   /\ passed' = passed
                   /\ IF tries + 1 < max_tries
                      THEN pc' = "generate" /\ result' = result
                      ELSE pc' = "idle"
                           /\ result' = [kind |-> "null", err |-> "", obj |-> NoObj,
                                         src |-> <<>>]
              ELSE IF r.raise # ""
              THEN pc' = "idle" /\ result' = Raised(r.raise) /\ passed' = passed
                   /\ tries' = tries
              ELSE pc' = "try" /\ result' = result /\ tries' = tries
                   /\ passed' = passed \cup {copiled_source}
    /\ UNCHANGED <<installed, fileExists, file, calls, args, copiled_source, clarity,
                   before, prev>>

\* _review_safety on the candidate, the classifier answering `answer` if asked.
ReviewSafety(answer) ==
    /\ pc = "review"
    /\ LET r == review_safety(copiled_source, args.module_whitelist,
                              args.function_whitelist, args.unsafe_overrides, answer)
       IN  /\ issues' = IF r.called THEN answer ELSE <<>>
           /\ oracle' = [oracle EXCEPT !.classify = @ + (IF r.called THEN 1 ELSE 0)]
           /\ carried' = r.found
           /\ IF r.raise # ""
              THEN pc' = "idle" /\ result' = Raised(r.raise) /\ passed' = passed
              ELSE pc' = "try" /\ result' = result
                   /\ passed' = passed \cup {copiled_source}
    /\ UNCHANGED <<installed, fileExists, file, calls, args, tries, copiled_source, clarity,
                   before, prev>>

\* The try block of the loop, and the loop's exit when the tries run out.
Try ==
    /\ pc = "try"
    /\ LET o == source_to_object(copiled_source)
           w == write_copiled_source(fileExists, file, callable_name, copiled_source,
                                     installed)
           e == IF o.raise # "" THEN o.raise ELSE w.raise
       IN  /\ IF o.raise = ""
              THEN fileExists' = w.exists /\ file' = w.file
              ELSE UNCHANGED <<fileExists, file>>
           /\ IF on_exception(e) = "return"
              THEN /\ pc' = "idle"
                   /\ result' = [kind |-> "fresh", err |-> "", obj |-> o.obj,
                                 src |-> copiled_source]
                   /\ tries' = tries
              ELSE IF on_exception(e) = "raise"
              THEN /\ pc' = "idle"
                   /\ result' = Raised("CopiledSourceCodeNeedsModule")
                   /\ tries' = tries
              ELSE /\ tries' = tries + 1
                   /\ IF tries + 1 < max_tries
                      THEN pc' = "generate" /\ result' = result
                      ELSE pc' = "idle"
                           /\ result' = [kind |-> "null", err |-> "", obj |-> NoObj,
                                         src |-> <<>>]
    /\ UNCHANGED <<installed, calls, args, copiled_source, clarity, issues, passed,
                   oracle, carried, before, prev>>

Next ==
    \/ \E force \in BOOLEAN, mw \in ModuleWhitelists, fw \in FunctionWhitelists,
          uo \in UnsafeOverrides, n \in SpecChars : Call(force, mw, fw, uo, n)
    \/ \E answer \in ClarityAnswers : ReviewSpecification(answer)
    \/ \E answer \in GenerateAnswers : Generate(answer)
    \/ \E answer \in ClassifierAnswers : ReviewSafety(answer)
    \/ Try

Spec == Init /\ [][Next]_vars

(***************************************************************************)
(* The same program in a process whose PATH lacks a formatter, on fewer    *)
(* inputs: there every write ends in FileNotFoundError.                    *)
(***************************************************************************)
InitBare ==
    /\ installed \in BareEnvironments
    /\ fileExists = FALSE
    /\ file = <<>>
    /\ pc = "idle"
    /\ calls = 0
    /\ args = [force_copilation |-> FALSE, module_whitelist |-> {},
               function_whitelist |-> {}, unsafe_overrides |-> {},
               spec_chars |-> ShortSpec]
    /\ tries = 0
    /\ copiled_source = <<>>
    /\ clarity = <<>>
    /\ issues = <<>>
    /\ passed = {}
    /\ oracle = [clarity |-> 0, generate |-> 0, classify |-> 0]
    /\ result = NoResult
    /\ carried = {}
    /\ before = [exists |-> FALSE, file |-> <<>>]
    /\ prev = [kind |-> "none", obj |-> NoObj, src |-> <<>>, oracle |-> 0,
               force |-> FALSE, fresh |-> FALSE]

BareAnswers == {SrcV1, SrcV2, SrcFooHelper, SrcBar, SrcNoDef, SrcInnerMath}

NextBare ==
    \/ \E force \in BOOLEAN, uo \in UnsafeOverrides :
          Call(force, {}, {}, uo, ShortSpec)
    \/ \E answer \in ClarityAnswers : ReviewSpecification(answer)
    \/ \E answer \in BareAnswers : Generate(answer)
    \/ \E answer \in {<<NONE>>, <<"FILE_WRITE">>} : ReviewSafety(answer)
    \/ Try

SpecBare == InitBare /\ [][NextBare]_vars

(***************************************************************************)
(* What the claims speak of.                                               *)
(***************************************************************************)
Ended == pc = "idle" /\ calls > 0

\* The cache file as the running call found it, loaded.
LoadedBefore == get_existing_copilation(before.exists, before.file, callable_name)

\* The cache file as it is, loaded.
LoadedNow == get_existing_copilation(fileExists, file, callable_name)

FileTouched == fileExists # before.exists \/ file # before.file

IsStatement(l) == l.k # "iimport"

\* Two definitions of one name whose statements agree; where a body imports
\* its modules does not count.
SameDefinition(o1, o2) ==
    /\ o1.name = o2.name
    /\ SelectSeq(o1.body, IsStatement) = SelectSeq(o2.body, IsStatement)

\* Both scans of the gate find nothing on s, net of the call's whitelists.
ScansClean(s) ==
    /\ check_for_blacklisted_modules_used(s,
           ModuleBlacklist \ args.module_whitelist) = {}
    /\ Parses(s)
    /\ check_for_blacklisted_functions_used(s,
           FunctionBlacklist \ args.function_whitelist) = {}

\* The scans of the gate report a violation on s.
ScanViolation(s) ==
    \/ check_for_blacklisted_modules_used(s,
           ModuleBlacklist \ args.module_whitelist) # {}
    \/ /\ Parses(s)
       /\ check_for_blacklisted_functions_used(s,
              FunctionBlacklist \ args.function_whitelist) # {}

GateErrors ==
    {"BlackListedModuleImportError", "BlackListedFunctionUseError",
     "CopiledSourceDeemedUnsafeError"}

(***************************************************************************)
(* C1: in a call that generates, a candidate is written to the cache file  *)
(* or returned as a fresh callable only if, in that call, the gate         *)
(* returned normally on that very candidate: both scans found nothing net  *)
(* of the call's whitelists, and the classifier's labels minus the call's  *)
(* unsafe_overrides minus NONE were empty.                                 *)
(***************************************************************************)
C1_GateBeforeWriteAndReturn ==
    [][(\/ fileExists' # fileExists
        \/ file' # file
        \/ (result'.kind = "fresh" /\ result.kind # "fresh")) =>
          /\ pc = "try"
          /\ copiled_source \in passed
          /\ ScansClean(copiled_source)
          /\ issues # <<>>
          /\ (split(issues) \ args.unsafe_overrides) \ {NONE} = {}
          /\ file' = write_copiled_source(fileExists, file, callable_name,
                                          copiled_source, installed).file
          /\ result'.kind = "fresh" => result'.src = copiled_source]_vars

C1_Witness ==
    /\ result.kind = "fresh"
    /\ FileTouched
    /\ issues = <<"FILE_WRITE", NONE>>
    /\ result.src = SrcOs

(***************************************************************************)
(* C2: when the module scan or the function scan of the gate reports a     *)
(* violation, that gate invocation makes no classifier call.               *)
(***************************************************************************)
C2_NoClassifierAfterScanViolation ==
    [][(pc = "review" /\ ScanViolation(copiled_source)) =>
           (oracle'.classify = oracle.classify /\ issues' = <<>>)]_vars

C2_Witness ==
    /\ Ended
    /\ result.err = "BlackListedFunctionUseError"
    /\ oracle.generate = 1
    /\ oracle.classify = 0

(***************************************************************************)
(* C3: in a call that misses the cache or is forced, a clarity answer that *)
(* begins with UNCLEAR ends the call with SpecificationUnclearError: no    *)
(* generate call, no classifier call and no cache write happen in it.      *)
(***************************************************************************)
C3_UnclearAborts ==
    StartsWith(clarity, "UNCLEAR") =>
        /\ pc = "idle"
        /\ result = Raised("SpecificationUnclearError")
        /\ oracle.generate = 0
        /\ oracle.classify = 0
        /\ ~FileTouched

C3_Witness ==
    /\ StartsWith(clarity, "UNCLEAR")
    /\ args.force_copilation
    /\ LoadedBefore.st = "hit"
    /\ result.err = "SpecificationUnclearError"

(***************************************************************************)
(* C4: an attempt of the loop, the first or the second, that raises        *)
(* BlackListedModuleImportError, BlackListedFunctionUseError,              *)
(* CopiledSourceDeemedUnsafeError or (an unresolved module)                *)
(* CopiledSourceCodeNeedsModule ends the call with that error: no retry,   *)
(* no further generate call.                                               *)
(***************************************************************************)
C4_TerminalErrorsReachCaller ==
    [][/\ (pc = "review" /\ pc' # "review") =>
            LET r == review_safety(copiled_source, args.module_whitelist,
                         args.function_whitelist, args.unsafe_overrides, issues')
            IN  r.raise \in GateErrors =>
                    /\ pc' = "idle"
                    /\ result' = Raised(r.raise)
                    /\ tries' = tries
                    /\ oracle'.generate = oracle.generate
       /\ (pc = "try" /\ pc' # "try"
             /\ source_to_object(copiled_source).raise = "ModuleNotFoundError") =>
                    /\ pc' = "idle"
                    /\ result' = Raised("CopiledSourceCodeNeedsModule")
                    /\ tries' = tries
                    /\ oracle'.generate = oracle.generate]_vars

C4_Witness ==
    /\ Ended
    /\ tries = 1
    /\ oracle.generate = 2
    /\ result.err = "CopiledSourceCodeNeedsModule"

(***************************************************************************)
(* C5: a call whose clarity check passed and whose first candidate does    *)
(* not parse (and imports no denylisted module) goes on to a second        *)
(* generate call: it does not end after one.                               *)
(***************************************************************************)
C5_RetryAfterUnparsable ==
    ~ /\ Ended
      /\ oracle.clarity = 1
      /\ oracle.generate = 1
      /\ ~Parses(copiled_source)
      /\ check_for_blacklisted_modules_used(copiled_source,
             ModuleBlacklist \ args.module_whitelist) = {}

(***************************************************************************)
(* C6: a call makes at most 2 generate calls and every step of it brings   *)
(* its end nearer; when both attempts passed the gate and failed in the    *)
(* try block otherwise than on an unresolved module, it returns the null   *)
(* result and raises nothing.                                              *)
(***************************************************************************)
StepsLeft ==
    CASE pc = "idle" -> 0
      [] pc = "clarity" -> 7
      [] pc = "generate" -> 3 * (2 - tries)
      [] pc = "review" -> 3 * (2 - tries) - 1
      [] pc = "try" -> 3 * (2 - tries) - 2

C6_TwoAttemptsThenNull ==
    /\ [](oracle.generate <= 2 /\ tries <= 2)
    /\ []((tries = 2) <=> (result.kind = "null"))
    /\ [](result.kind = "null" => (pc = "idle" /\ oracle.generate = 2))
    /\ [][pc # "idle" => (StepsLeft' < StepsLeft /\ StepsLeft' >= 0)]_vars

C6_Witness ==
    /\ Ended
    /\ result.kind = "null"
    /\ oracle.generate = 2
    /\ oracle.classify = 2

\* The call before this one started without a cache file, was not forced
\* and returned a fresh callable; this one is not forced and has ended.
SecondOfTwo ==
    /\ Ended
    /\ prev.kind = "fresh"
    /\ prev.fresh
    /\ ~prev.force
    /\ ~args.force_copilation

C8_CacheHitSkipsEverything ==
    (Ended /\ ~args.force_copilation /\ LoadedBefore.st = "hit") =>
        /\ result = [kind |-> "cached", err |-> "", obj |-> LoadedBefore.obj,
                     src |-> <<>>]
        /\ OracleCalls = 0
        /\ clarity = <<>> /\ issues = <<>> /\ copiled_source = <<>>
        /\ ~FileTouched

C8_Witness ==
    /\ Ended
    /\ result.kind = "cached"
    /\ args.spec_chars > max_characters
    /\ args.module_whitelist = {}
    /\ args.unsafe_overrides = {"FILE_WRITE"}
    /\ prev.src = SrcOs

(***************************************************************************)
(* C9: when a cache entry of the callable name exists and a forced call    *)
(* succeeds with a candidate that defines the name, the file then holds    *)
(* one definition of the name, the candidate's, and loading the name from  *)
(* the file yields it.                                                     *)
(***************************************************************************)
C9_ForcedCallSupersedesEntry ==
    (/\ Ended
     /\ result.kind = "fresh"
     /\ args.force_copilation
     /\ LoadedBefore.st = "hit"
     /\ DefLines(result.src, callable_name) # {}) =>
        /\ Cardinality(DefLines(file, callable_name)) = 1
        /\ LoadedNow.st = "hit"
        /\ SameDefinition(LoadedNow.obj, Binding(result.src, callable_name))

(***************************************************************************)
(* C10: a candidate that defines the callable name and passed the gate,    *)
(* written to a cache file that did not exist, loads again: a hit whose    *)
(* definition is the candidate's, never a miss, never a load error.        *)
(***************************************************************************)
C10_FreshWriteThenLoad ==
    (/\ Ended
     /\ result.kind = "fresh"
     /\ ~before.exists
     /\ DefLines(result.src, callable_name) # {}) =>
        /\ LoadedNow.st = "hit"
        /\ SameDefinition(LoadedNow.obj, Binding(result.src, callable_name))

\* The running (or last) call went past the cache check: the file loaded and
\* the call missed it or was forced.
Generates ==
    /\ calls > 0
    /\ LoadedBefore.st # "raise"
    /\ (args.force_copilation \/ LoadedBefore.st = "none")

(***************************************************************************)
(* C11: when the text handed to the oracle wrapper is longer than the      *)
(* character budget, the oracle is not called and the wrapper returns its  *)
(* fixed text as the completion: the caller (here the clarity check, on an *)
(* over-budget specification) gets an answer and no error.                 *)
(***************************************************************************)
C11_OverBudgetTextIsReturned ==
    (Generates /\ pc # "clarity" /\ args.spec_chars > max_characters) =>
        /\ oracle.clarity = 0
        /\ result.err # "AttributeError"

\* The text of s holds "import X" or "from X import".
HasImportText(s, X) ==
    \E i \in 1..Len(s) :
        \/ s[i] = L("from", X)
        \/ s[i].k \in {"import", "iimport"} /\ NameBegins(X, s[i].a)

(***************************************************************************)
(* C12: on every candidate whose text holds "import X" or "from X import"  *)
(* for a denylisted module X, the gate reports X and raises                *)
(* BlackListedModuleImportError when X is not in the call's module         *)
(* whitelist; when X is in the whitelist the gate does not report X and    *)
(* does not raise that error for it.                                       *)
(***************************************************************************)
C12_DenylistedImportReported ==
    [][pc = "review" =>
          \A X \in ModuleBlacklist :
              HasImportText(copiled_source, X) =>
                  IF X \notin args.module_whitelist
                  THEN /\ pc' = "idle"
                       /\ result' = Raised("BlackListedModuleImportError")
                       /\ X \in carried'
                       /\ oracle' = oracle
                  ELSE /\ X \notin carried'
                       /\ result'.err # "BlackListedModuleImportError"]_vars

C12_Witness ==
    /\ Ended
    /\ copiled_source = SrcFromOs
    /\ args.module_whitelist = {}
    /\ result.err = "BlackListedModuleImportError"
    /\ carried = {"os"}

(***************************************************************************)
(* C13: when both scans of the gate found nothing, the classifier is asked *)
(* and the gate returns normally if and only if the labels of its answer   *)
(* (the pieces between ", "), minus the call's unsafe_overrides, minus     *)
(* NONE, are none; otherwise the call ends with                            *)
(* CopiledSourceDeemedUnsafeError carrying exactly the labels that remain. *)
(***************************************************************************)
C13_GatePassesIffNoLabelRemains ==
    [][(pc = "review" /\ ScansClean(copiled_source)) =>
          LET remaining == (split(issues') \ args.unsafe_overrides) \ {NONE}
          IN  /\ issues' # <<>>
              /\ oracle'.classify = oracle.classify + 1
              /\ (pc' = "try") <=> (remaining = {})
              /\ remaining = {} =>
                    (copiled_source \in passed' /\ result' = result)
              /\ remaining # {} =>
                    /\ pc' = "idle"
                    /\ result' = Raised("CopiledSourceDeemedUnsafeError")
                    /\ carried' = remaining]_vars

C13_Witness ==
    /\ pc = "try"
    /\ issues = <<"FILE_WRITE", NONE>>
    /\ args.unsafe_overrides = {"FILE_WRITE"}
    /\ copiled_source \in passed

(***************************************************************************)
(* C14: on a candidate that does not parse and on which the module scan    *)
(* finds nothing, the gate raises the parse error of the function scan and *)
(* the call ends with it: tries is not incremented, no further generate    *)
(* call and no classifier call happen, and the cache file is not written.  *)
(***************************************************************************)
C14_ParseErrorLeavesTheCall ==
    [][(/\ pc = "review"
        /\ ~Parses(copiled_source)
        /\ check_for_blacklisted_modules_used(copiled_source,
               ModuleBlacklist \ args.module_whitelist) = {}) =>
          /\ pc' = "idle"
          /\ result' = Raised("SyntaxError")
          /\ tries' = tries
          /\ oracle' = oracle
          /\ issues' = <<>>
          /\ passed' = passed
          /\ fileExists' = fileExists
          /\ file' = file]_vars

C14_Witness ==
    /\ Ended
    /\ ~Parses(copiled_source)
    /\ result = Raised("SyntaxError")
    /\ oracle = [clarity |-> 1, generate |-> 1, classify |-> 0]
    /\ tries = 0
    /\ ~FileTouched

(***************************************************************************)
(* C15: a candidate that passed the gate and parses but does not define    *)
(* the expected callable name is a failed attempt: it is not returned and  *)
(* not written to the cache file, tries is incremented and the loop        *)
(* retries.                                                                *)
(***************************************************************************)
C15_WrongNameIsAFailedAttempt ==
    [][(/\ pc = "try"
        /\ Parses(copiled_source)
        /\ MissingModules(copiled_source) = {}
        /\ DefLines(copiled_source, callable_name) = {}) =>
          /\ result'.kind # "fresh"
          /\ fileExists' = fileExists
          /\ file' = file
          /\ tries' = tries + 1
          /\ (tries = 0 => pc' = "generate")]_vars

(***************************************************************************)
(* C16 as stated: every call that misses the cache or is forced makes the  *)
(* clarity oracle call exactly once.                                       *)
(***************************************************************************)
C16_ClarityCallExactlyOnce ==
    (Ended /\ (args.force_copilation \/ LoadedBefore.st = "none")) =>
        oracle.clarity = 1

(***************************************************************************)
(* C16 as amended: every call whose cache file loads and that misses the   *)
(* cache or is forced, also over an existing entry, runs the clarity check *)
(* once, before the first generate call and whatever the retries; the      *)
(* check makes its one oracle call when the specification is within the    *)
(* character budget and none when it is over it, the call then ending in   *)
(* the check.  A call whose cache file raises on loading ends before the   *)
(* check.                                                                  *)
(***************************************************************************)
C16_ClarityCheckOnceBeforeGenerate ==
    /\ Generates =>
          IF args.spec_chars <= max_characters
          THEN oracle.clarity = (IF pc = "clarity" THEN 0 ELSE 1)
          ELSE /\ oracle.clarity = 0
               /\ pc \in {"clarity", "idle"}
               /\ pc = "idle" => result = Raised("AttributeError")
    /\ oracle.generate > 0 => (oracle.clarity = 1 /\ clarity # <<>>)
    /\ (calls > 0 /\ LoadedBefore.st = "raise") => (pc = "idle" /\ OracleCalls = 0)

C16_Witness ==
    /\ Ended
    /\ args.force_copilation
    /\ LoadedBefore.st = "hit"
    /\ tries = 1
    /\ oracle.clarity = 1
    /\ oracle.generate = 2

\* s imports a denylisted module that the call has not whitelisted.
ImportsDenylisted(s) ==
    \E X \in ModuleBlacklist \ args.module_whitelist : HasImportText(s, X)

\* s calls a denylisted function that the call has not whitelisted.
CallsDenylisted(s) ==
    \E f \in FunctionBlacklist \ args.function_whitelist :
        \E i \in 1..Len(s) : s[i] = L("call", f)

(***************************************************************************)
(* C17: the gate scans the modules, then the functions, then asks the      *)
(* classifier, and stops at the first failure: a candidate that imports a  *)
(* denylisted module ends the call with BlackListedModuleImportError, also *)
(* when it calls a denylisted function; a candidate that parses and only   *)
(* calls a denylisted function ends it with BlackListedFunctionUseError;   *)
(* in both cases whatever the classifier would answer, which is not asked. *)
(***************************************************************************)
C17_ModuleScanThenFunctionScan ==
    [][pc = "review" =>
          /\ ImportsDenylisted(copiled_source) =>
                /\ result' = Raised("BlackListedModuleImportError")
                /\ oracle' = oracle
          /\ (/\ ~ImportsDenylisted(copiled_source)
              /\ Parses(copiled_source)
              /\ CallsDenylisted(copiled_source)) =>
                /\ result' = Raised("BlackListedFunctionUseError")
                /\ carried' \subseteq FunctionBlacklist
                /\ oracle' = oracle]_vars

C17_Witness ==
    /\ Ended
    /\ copiled_source = SrcOsPathEval
    /\ CallsDenylisted(copiled_source)
    /\ result = Raised("BlackListedModuleImportError")
    /\ oracle.classify = 0

\* The try block is about to replace the definition the cache file holds.
Rewrites ==
    /\ pc = "try"
    /\ source_to_object(copiled_source).raise = ""
    /\ LoadedNow.st = "hit"

\* s ends with t.
EndsWith(s, t) == Len(t) <= Len(s) /\ SubSeq(s, Len(s) - Len(t) + 1, Len(s)) = t

(***************************************************************************)
(* C18: _rewrite_copiled_source, replacing the definition of the callable  *)
(* name in a cache file, leaves every line before the definition's first   *)
(* line and every line after its last line in the file, in order: the file *)
(* it leaves is the lines before, then the new source, then empty lines,   *)
(* then the lines after.                                                   *)
(***************************************************************************)
C18_RewriteKeepsTheRest ==
    Rewrites =>
        LET first == Max(DefLines(file, callable_name))
            last == BlockEnd(file, first)
            head == SubSeq(file, 1, first - 1) \o copiled_source
            rest == SubSeq(file, last + 1, Len(file))
            r == rewrite_copiled_source(file, callable_name, copiled_source)
        IN  /\ Len(head) <= Len(r)
            /\ SubSeq(r, 1, Len(head)) = head
            /\ EndsWith(SubSeq(r, Len(head) + 1, Len(r)), rest)

(***************************************************************************)
(* C19: a call that raises or returns the null result leaves the cache     *)
(* file as the call found it, absent or with the same content, also when   *)
(* a step of the cache write failed and the loop caught the failure.       *)
(***************************************************************************)
C19_FailedCallLeavesTheFile ==
    (Ended /\ result.kind \in {"raise", "null"}) => ~FileTouched

\* The source of the callable the last call returned: the candidate of a
\* fresh callable, the cache file of a cached one.
ReturnedSource == IF result.kind = "cached" THEN before.file ELSE result.src

(***************************************************************************)
(* C20 as stated: every callable a call returns, from the cache or freshly *)
(* generated, has a source that imports no denylisted module and calls no  *)
(* denylisted function, net of the whitelists of that same call.           *)
(***************************************************************************)
C20_ReturnedSourceCleanForThisCall ==
    (Ended /\ result.kind \in {"cached", "fresh"}) =>
        /\ ~ImportsDenylisted(ReturnedSource)
        /\ ~CallsDenylisted(ReturnedSource)

(***************************************************************************)
(* C20 as amended: every callable a call generates and returns has a       *)
(* source with no violation net of the whitelists and overrides of that    *)
(* same call; a callable returned from the cache is the definition the     *)
(* cache file holds, returned with no scan and no classifier call,         *)
(* whatever the whitelists and overrides of the returning call.            *)
(***************************************************************************)
C20_FreshCheckedCachedUnchecked ==
    /\ (Ended /\ result.kind = "fresh") =>
          /\ ~ImportsDenylisted(result.src)
          /\ ~CallsDenylisted(result.src)
          /\ (split(issues) \ args.unsafe_overrides) \ {NONE} = {}
    /\ (Ended /\ result.kind = "cached") =>
          /\ result.obj = Binding(before.file, callable_name)
          /\ oracle.classify = 0
          /\ carried = {}
          /\ passed = {}

C20_Witness ==
    /\ Ended
    /\ result.kind = "cached"
    /\ args.module_whitelist = {}
    /\ args.function_whitelist = {}
    /\ ImportsDenylisted(before.file)
    /\ CallsDenylisted(before.file)

====
